---- MODULE Spec2Model ----
(***************************************************************************)
(* State-machine model of the SIP user agent (class SipUA) and of the part *)
(* of the RTP engine (class RtpEngine) that the user agent drives.         *)
(*                                                                         *)
(* One action per API call, timer callback, socket callback or received    *)
(* SIP message.  An async method is split at its await: the call and the   *)
(* continuation are separate actions.  Random tags, branches and Call-IDs  *)
(* (crypto.randomBytes) are modelled as values different from every value  *)
(* of the same kind that the state still remembers.                        *)
(***************************************************************************)
EXTENDS Integers, Sequences, FiniteSets, TLC

\* ---------------------------------------------------------------- bounds
MaxCSeq == 5            \* registerCSeq is capped here
MaxCallCSeq == 2        \* call.cseq is capped here
MaxInFlight == 1        \* register() calls suspended inside start()
MaxStopTimers == 1      \* pending setTimeout(() => this.stop(), 2000)
MaxEngines == 2         \* RtpEngine objects alive at once
MaxTimers == 2          \* running setInterval timers of one RtpEngine
MaxTicks == 3           \* interval callbacks of the engine run on its own
MaxBlocks == 2          \* microphone blocks fed to the engine run on its own
MaxMessages == 2        \* SIP messages in one TCP stream
MaxBody == 2            \* body bytes of a SIP message in that stream

\* ------------------------------------------------------ program constants
maxRegisterRetries == 3
localTag == 1           \* this.localTag, drawn once in the constructor
registerCallId == 1     \* this.registerCallId, drawn once in the constructor

VARIABLES
  transport,            \* config.transport: "udp" or "tcp" ("tls" takes the tcp paths)
  udpSocket,            \* this.udpSocket # null
  tcpSocket,            \* this.tcpSocket # null
  tcpConnected,         \* this.tcpConnected
  tcpAlive,             \* the stream behind this.tcpSocket is not closed or destroyed
  registered,           \* this.registered
  registerTimer,        \* the refresh setInterval is running
  registerRetryTimer,   \* a retry setTimeout is pending
  registerRetryCount,   \* this.registerRetryCount
  registerCSeq,         \* this.registerCSeq
  stopTimers,           \* pending 2 s timers of unregister()
  regDns,               \* register() calls suspended in start() before the socket exists
  regConn,              \* register() calls suspended on the bind/connect promise
  call,                 \* this.call (state "none": null)
  engines,              \* the RtpEngine objects
  pendInvite,           \* engines of invite() calls suspended in rtp.bind()
  pendAnswer,           \* engines of answerIncoming() calls suspended in rtp.bind()
  sent,                 \* SIP messages written to the transport by the last step
  events,               \* events emitted by the last step
  lastOp,               \* the last step: [op, arg]
  regCSeqSent,          \* history: CSeq of the last REGISTER written to the transport
  retryRun,             \* history: retry timeouts since register() sent its REGISTER (-1: none)
  retrySent,            \* history: REGISTERs written by those timeouts
  respEver,             \* history: a REGISTER response has been received
  uasTag,               \* history: Call-ID and To-tag of the first 180 sent for the INVITE the call record holds
  lastInvite,           \* history: CSeq number and branch of the last INVITE sent for the call
  rtp,                  \* one RtpEngine run on its own, with its counters, mute flag and queue
  pkts,                 \* the RTP packets that engine sent in the last step
  lastPkt,              \* history: counters of the last packet sent before that step
  nTicks,               \* history: interval callbacks that engine has run
  nFed,                 \* history: microphone blocks offered to that engine
  discarded,            \* history: blocks offered while muted or queued when mute was set
  heard,                \* history: source of the first valid datagram since start(), or 0
  regPromise,           \* history: the promise of the last register() call
  stream,               \* the SIP messages the peer writes to the TCP stream, in order
  nRead,                \* bytes of that stream handed to _handleTcpData so far
  tcpBuffer,            \* this.tcpBuffer
  delivered,            \* history: the byte strings passed to _handleMessage, in order
  codec                 \* a sample taken through the G.711 functions: [law, stage, pcm, byte, first]

transportVars == <<transport, udpSocket, tcpSocket, tcpConnected, tcpAlive>>
regVars == <<registered, registerTimer, registerRetryTimer, registerRetryCount,
             registerCSeq, stopTimers, regDns, regConn, regPromise>>
callVars == <<call, engines, pendInvite, pendAnswer>>
outVars == <<sent, events, lastOp>>
regHist == <<regCSeqSent, retryRun, retrySent, respEver>>
callHist == <<uasTag, lastInvite>>
rtpVars == <<rtp, pkts, lastPkt, nTicks, nFed, discarded, heard>>
framerVars == <<stream, nRead, tcpBuffer, delivered>>
vars == <<transportVars, regVars, callVars, outVars, regHist, callHist, rtpVars,
          framerVars, codec>>

\* ------------------------------------------------------------ SDP, messages
NoSdp == [media |-> FALSE, ep |-> 0, pts |-> <<>>]

\* The SDP bodies a peer sends: endpoint and payload-type list of m=audio.
RemoteSdps == { [media |-> TRUE, ep |-> 701, pts |-> <<8, 0>>] }

Msg(kind, method, status, via, from, fromTag, to, toTag, callId, cseq, cseqMethod) ==
  [kind |-> kind, method |-> method, status |-> status, via |-> via,
   from |-> from, fromTag |-> fromTag, to |-> to, toTag |-> toTag,
   callId |-> callId, cseq |-> cseq, cseqMethod |-> cseqMethod,
   auth |-> FALSE, expires |-> -1, sdp |-> NoSdp, contact |-> FALSE]

\* A value no remembered value of its kind equals (generateTag, generateBranch,
\* generateCallId).
Fresh(used) == CHOOSE n \in 2..(Cardinality(used) + 2) : n \notin used

\* ------------------------------------------------------------ event surface
NoOut == [sent |-> <<>>, events |-> <<>>]

emit(o, e) == [o EXCEPT !.events = Append(@, e)]

emitAll(o, es) == [o EXCEPT !.events = @ \o es]

TransportUp ==
  IF transport = "udp" THEN udpSocket ELSE tcpSocket /\ tcpConnected

\* _send: the debug log, then the write, or the error log when there is no
\* socket (UDP) or the stream is not connected (TCP/TLS).
send(o, m, up) ==
  LET o1 == emit(o, <<"log", "debug">>)
  IN IF up THEN [o1 EXCEPT !.sent = Append(@, m)]
           ELSE emit(o1, <<"log", "error">>)

\* A message can be delivered to _handleMessage.
CanReceive ==
  IF transport = "udp" THEN udpSocket ELSE tcpSocket /\ tcpConnected /\ tcpAlive

\* _handleMessage and _handleResponse / _handleRequest log before dispatching.
received == emitAll(NoOut, << <<"log", "debug">>, <<"log", "sip">> >>)

Registers(msgs) == { i \in DOMAIN msgs : msgs[i].method = "REGISTER" }

\* History of REGISTER CSeqs on the wire.
RegSentAfter(o, old) ==
  IF Registers(o.sent) = {} THEN old
  ELSE o.sent[CHOOSE i \in Registers(o.sent) : \A j \in Registers(o.sent) : j <= i].cseq

\* ------------------------------------------------------------ REGISTER
buildRegisterDefaultExpires(cseq, expires, branch) ==
  [Msg("request", "REGISTER", 0, branch, "aor", localTag, "aor", 0,
       registerCallId, cseq, "REGISTER")
   EXCEPT !.expires = 300, !.contact = TRUE]

\* _buildRegister(expires)
buildRegister(cseq, expires, branch) ==
  [Msg("request", "REGISTER", 0, branch, "aor", localTag, "aor", 0,
       registerCallId, cseq, "REGISTER")
   EXCEPT !.expires = expires, !.contact = TRUE]

\* CSeq used by _buildRegisterWithAuth: this.registerCSeq++ before building.
AuthRegisterCSeqStuck(cseq) == cseq

AuthRegisterCSeq(cseq) == cseq + 1

buildRegisterWithAuth(cseq, expires, branch) ==
  [buildRegister(cseq, expires, branch) EXCEPT !.auth = TRUE]

\* The give-up test of the retry timer, after the count was incremented.
RetryExhaustedEarly(count) == count >= maxRegisterRetries

RetryExhausted(count) == count > maxRegisterRetries


\* ------------------------------------------------------------ RTP engines
NoEngine == [socket |-> FALSE, active |-> FALSE, sendInterval |-> FALSE,
             timers |-> 0, remote |-> 0, pt |-> 0]

EngineIds == 1..MaxEngines

\* RtpEngine.bind: the socket object exists from the call on.
rtpBind(e) == [e EXCEPT !.socket = TRUE]

\* RtpEngine.start: every call starts one more setInterval and keeps only the
\* last handle.
rtpStart(e, ep, pt) ==
  [e EXCEPT !.remote = ep, !.pt = pt, !.active = TRUE,
            !.sendInterval = TRUE, !.timers = @ + 1]

\* RtpEngine.stop: clears the one interval whose handle is kept.
rtpStop(e) ==
  [e EXCEPT !.active = FALSE, !.sendInterval = FALSE,
            !.timers = IF e.sendInterval THEN @ - 1 ELSE @]

\* RtpEngine.close
rtpClose(e) == [rtpStop(e) EXCEPT !.socket = FALSE]

\* ------------------------------------------------------------ RTP packets
SAMPLES_PER_PACKET == 160

Wrap16 == 65536         \* 2^16: the sequence number is kept "& 0xFFFF"

SignBit == Wrap16 \div 2

ZeroEp == 700           \* an endpoint whose address is "0.0.0.0"

\* The timestamp is a 32-bit pattern kept as two 16-bit halves.  signed tells
\* how the number reads: the constructor draws a non-negative number below
\* 2^32, while "& 0xFFFFFFFF" yields a signed 32-bit integer, negative when
\* the top bit of the pattern is set.
tsNegative(ts) == ts.signed /\ ts.hi >= SignBit

\* (timestamp + SAMPLES_PER_PACKET) & 0xFFFFFFFF
tsAdvance(ts) ==
  LET lo == ts.lo + SAMPLES_PER_PACKET
  IN [hi |-> (ts.hi + (lo \div Wrap16)) % Wrap16, lo |-> lo % Wrap16,
      signed |-> TRUE]

\* (sequenceNumber + 1) & 0xFFFF
seqAdvance(n) == (n + 1) % Wrap16

\* The engine the constructor leaves, with the two random counters it drew.
NewRtp(seq, ts) ==
  [socket |-> FALSE, active |-> FALSE, sendInterval |-> FALSE, timers |-> 0,
   remote |-> 0, pt |-> 0, muted |-> FALSE, mic |-> <<>>, seq |-> seq,
   ts |-> ts]

\* RtpEngine.stop also empties the microphone queue.
stopEngine(e) == [rtpStop(e) EXCEPT !.mic = <<>>]

\* RtpEngine.close
closeEngine(e) == [stopEngine(e) EXCEPT !.socket = FALSE]

\* RtpEngine.feedMicAudio: block b is queued unless inactive or muted.
feedMicAudio(e, b) ==
  IF ~e.active \/ e.muted THEN e ELSE [e EXCEPT !.mic = Append(@, b)]

\* RtpEngine.setMuted
setMuted(e, m) ==
  [e EXCEPT !.muted = m, !.mic = IF m THEN <<>> ELSE @]

\* The 160-byte silence payload of the payload type.
silence(pt) ==
  [kind |-> "silence", block |-> 0, fill |-> IF pt = 8 THEN 213 ELSE 255,
   len |-> SAMPLES_PER_PACKET]

\* The encoded payload of microphone block b.
encoded(pt, b) ==
  [kind |-> IF pt = 8 THEN "alaw" ELSE "ulaw", block |-> b, fill |-> 0,
   len |-> SAMPLES_PER_PACKET]

\* RtpEngine._sendPacket, one interval callback: the engine after it, the
\* packets it sent and whether it threw.  _buildRtpPacket writes the
\* timestamp with writeUInt32BE, which throws a RangeError on a negative
\* number; the queue has been shifted by then.
sendPacket(e) ==
  IF ~e.active \/ ~e.socket \/ e.remote = 0
  THEN [rtp |-> e, pkts |-> <<>>, threw |-> FALSE]
  ELSE LET quiet == e.muted \/ Len(e.mic) = 0
           payload == IF quiet THEN silence(e.pt) ELSE encoded(e.pt, Head(e.mic))
           e1 == IF quiet THEN e ELSE [e EXCEPT !.mic = Tail(@)]
       IN IF tsNegative(e.ts)
          THEN [rtp |-> e1, pkts |-> <<>>, threw |-> TRUE]
          ELSE [rtp |-> [e1 EXCEPT !.seq = seqAdvance(@), !.ts = tsAdvance(@)],
                pkts |-> << [to |-> e.remote, pt |-> e.pt % 128, seq |-> e.seq,
                             hi |-> e.ts.hi, lo |-> e.ts.lo,
                             payload |-> payload] >>,
                threw |-> FALSE]

\* RtpEngine._handleIncoming for datagram p = [len, version, pt, src]: the
\* engine after it and the events it emitted.
handleIncoming(e, p) ==
  IF p.len < 12 \/ p.version # 2 \/ p.len = 12
  THEN [rtp |-> e, events |-> <<>>]
  ELSE LET learn == e.remote = 0 \/ e.remote = ZeroEp
           e1 == IF learn THEN [e EXCEPT !.remote = p.src] ELSE e
           ev1 == IF learn THEN << <<"log", "remote-learned">> >> ELSE <<>>
       IN [rtp |-> e1,
           events |-> IF p.pt \in {0, 8} THEN Append(ev1, <<"audio", "pcm">>)
                                         ELSE ev1]

\* ------------------------------------------------------------ the call record
NoCall ==
  [state |-> "none", callId |-> 0, fromTag |-> 0, toTag |-> 0, localTag |-> 0,
   targetUri |-> "undefined", rtpEngine |-> 0, cseq |-> 0, branch |-> 0,
   localSdp |-> NoSdp, remoteSdp |-> NoSdp,
   incomingVia |-> 0, incomingFrom |-> "undefined", incomingTo |-> "undefined",
   incomingCSeq |-> 0]

\* The INVITE requests a peer sends (Via, From, To, Call-ID, CSeq number, body).
Invites ==
  { [callId |-> 101, via |-> 201, from |-> "fromA", to |-> "toA", cseq |-> 7,
     sdp |-> [media |-> TRUE, ep |-> 701, pts |-> <<8, 0>>]],
    [callId |-> 102, via |-> 202, from |-> "fromB", to |-> "toB", cseq |-> 1,
     sdp |-> NoSdp] }

\* BYE and CANCEL requests a peer sends: within the dialogs of Invites.
InDialogRequests ==
  { [callId |-> inv.callId, via |-> inv.via + 10, from |-> inv.from,
     to |-> inv.to, cseq |-> inv.cseq + 1] : inv \in Invites }

CancelRequests ==
  { [callId |-> inv.callId, via |-> inv.via, from |-> inv.from,
     to |-> inv.to, cseq |-> inv.cseq] : inv \in Invites }

RemoteTags == {0, 501}          \* 0: the To header has no tag

TagsInUse == {localTag, call.fromTag, call.localTag, uasTag.tag}

BranchesInUse == {call.branch, lastInvite.branch}

\* An engine slot that holds no live object: closed, no timer, not referenced.
FreeEngine(e) ==
  /\ ~engines[e].socket /\ engines[e].timers = 0
  /\ call.rtpEngine # e /\ e \notin pendInvite /\ e \notin pendAnswer


\* _buildSdp: the offer or answer of the UA, on the port of engine e.
buildSdp(e) == [media |-> TRUE, ep |-> e, pts |-> <<0, 8, 101>>]

\* audio.payloadTypes[0] || 0
FirstPt(pts) == IF Len(pts) = 0 THEN 0 ELSE pts[1]

\* ------------------------------------------------------------ message builders
buildInvite(c, sdp) ==
  [Msg("request", "INVITE", 0, c.branch, "aor", c.fromTag, c.targetUri, 0,
       c.callId, c.cseq, "INVITE")
   EXCEPT !.sdp = sdp, !.contact = TRUE]

\* _buildInviteWithAuth, after its this.call.cseq++ and its new this.call.branch.
buildInviteWithAuth(c) ==
  [buildInvite(c, c.localSdp) EXCEPT !.auth = TRUE]

\* _buildAck: the branch is always a new generateBranch().
buildAck(c, toTag, branch) ==
  Msg("request", "ACK", 0, branch, "aor", c.fromTag, c.targetUri, toTag,
      c.callId, c.cseq, "ACK")

buildBye(c, branch) ==
  Msg("request", "BYE", 0, branch, "aor", c.fromTag, c.targetUri, c.toTag,
      c.callId, c.cseq, "BYE")

\* _buildCancel: the Via branch of the call, "CSeq: 1 CANCEL".
buildCancel(c) ==
  Msg("request", "CANCEL", 0, c.branch, "aor", c.fromTag, c.targetUri, 0,
      c.callId, 1, "CANCEL")

buildInfo(c, branch) ==
  Msg("request", "INFO", 0, branch, "aor", c.fromTag, c.targetUri, c.toTag,
      c.callId, c.cseq, "INFO")

\* A response built from the headers stored with the call.
storedResponse(c, status, toTag) ==
  Msg("response", "", status, c.incomingVia, c.incomingFrom, 0, c.incomingTo,
      toTag, c.callId, c.incomingCSeq, "INVITE")

build200ForInvite(c, sdp) ==
  [storedResponse(c, 200, c.localTag) EXCEPT !.sdp = sdp, !.contact = TRUE]

\* _build486: this.call.localTag || generateTag()
build486(c, tag) ==
  storedResponse(c, 486, IF c.localTag # 0 THEN c.localTag ELSE tag)

build487NoTag(c) == storedResponse(c, 487, 0)

\* The 487 of _handleIncomingCancel.
build487(c) == storedResponse(c, 487, c.localTag)

\* A response that echoes Via, From, To, Call-ID and CSeq of request r.
echo(r, status, toTag, method) ==
  Msg("response", "", status, r.via, r.from, 0, r.to, toTag, r.callId,
      r.cseq, method)

busy486WrongCSeq(inv, tag) == echo([inv EXCEPT !.cseq = 1], 486, tag, "INVITE")

\* The 486 of _handleIncomingInvite for an INVITE received while active.
busy486(inv, tag) == echo(inv, 486, tag, "INVITE")

\* The test of _handleIncomingInvite that rejects an INVITE as busy.
IsBusy(c) == c.state = "active"

\* ------------------------------------------------------------ handler bodies
\* Each returns [call, engines, out]: the call record, the engines and the
\* output after the handler ran on (c, eng, o).

\* An engine object nothing refers to any more (closed, no timer left) is
\* collected: its slot holds no object.
collected(e) == IF ~e.socket /\ e.timers = 0 THEN NoEngine ELSE e

\* _endCall
endCall(c, eng, o, reason) ==
  IF c.state = "none" THEN [call |-> c, engines |-> eng, out |-> o]
  ELSE [call |-> NoCall,
        engines |-> IF c.rtpEngine # 0
                    THEN [eng EXCEPT ![c.rtpEngine] = collected(rtpClose(@))]
                    ELSE eng,
        out |-> emitAll(o, << <<"log", "call">>, <<"callState", "idle", reason>> >>)]

\* hangup; branch and tag are the values generateBranch / generateTag return.
hangup(c, eng, o, up, branch, tag) ==
  IF c.state = "none"
  THEN [call |-> c, engines |-> eng, out |-> emit(o, <<"log", "warn">>)]
  ELSE LET o1 == IF c.state = "calling"
                 THEN emit(send(o, buildCancel(c), up), <<"log", "sip">>)
                 ELSE IF c.state = "ringing-in"
                 THEN emit(send(o, build486(c, tag), up), <<"log", "sip">>)
                 ELSE emit(send(o, buildBye([c EXCEPT !.cseq = @ + 1], branch), up),
                           <<"log", "sip">>)
       IN endCall(c, eng, o1, "User hangup")


threw(o) == emit(o, <<"throw", "TypeError">>)

\* _handleInviteResponse for response r = [status, toTag, cseq, sdp, auth];
\* b1 and b2 are the branches generateBranch returns.
handleInviteResponse(c, eng, o, r, up, b1, b2) ==
  IF c.state = "none" THEN [call |-> c, engines |-> eng, out |-> o]
  ELSE
    LET c1 == IF r.toTag # 0 THEN [c EXCEPT !.toTag = r.toTag] ELSE c
    IN CASE r.status = 100 ->
              [call |-> c1, engines |-> eng, out |-> emit(o, <<"log", "sip">>)]
         [] r.status \in {180, 183} ->
              [call |-> [c1 EXCEPT !.state = "ringing"], engines |-> eng,
               out |-> emitAll(o, << <<"log", "call">>,
                                     <<"callState", "ringing", "target">> >>)]
         [] r.status \in {401, 407} ->
              IF ~r.auth THEN [call |-> c1, engines |-> eng, out |-> o]
              ELSE LET o1 == send(emit(o, <<"log", "sip">>),
                                  buildAck(c1, c1.toTag, b1), up)
                       c2 == [c1 EXCEPT !.cseq = @ + 1, !.branch = b2]
                   IN [call |-> c2, engines |-> eng,
                       out |-> send(o1, buildInviteWithAuth(c2), up)]
         [] r.status = 200 ->
              LET c2 == [c1 EXCEPT !.state = "active", !.remoteSdp = r.sdp]
                  o1 == emitAll(o, << <<"log", "call">>,
                                      <<"callState", "active", "target">> >>)
                  o2 == emit(send(o1, buildAck(c2, c2.toTag, b1), up),
                             <<"log", "sip">>)
              IN IF ~r.sdp.media
                 THEN [call |-> c2, engines |-> eng, out |-> o2]
                 ELSE IF c2.rtpEngine = 0
                 THEN [call |-> c2, engines |-> eng, out |-> threw(o2)]
                 ELSE [call |-> c2,
                       engines |-> [eng EXCEPT ![c2.rtpEngine] =
                                      rtpStart(@, r.sdp.ep, FirstPt(r.sdp.pts))],
                       out |-> emitAll(o2, << <<"log", "debug">>, <<"log", "sip">> >>)]
         [] r.status >= 400 /\ r.status \notin {401, 407} ->
              LET o1 == send(emit(o, <<"log", "error">>),
                             buildAck(c1, c1.toTag, b1), up)
              IN endCall(c1, eng, o1, ToString(r.status))
         [] OTHER -> [call |-> c1, engines |-> eng, out |-> o]

\* _handleIncomingInvite for INVITE inv; tag is the value generateTag returns.
handleIncomingInvite(c, eng, o, inv, up, tag) ==
  IF IsBusy(c)
  THEN [call |-> c, engines |-> eng,
        out |-> send(emit(o, <<"log", "call">>), busy486(inv, tag), up)]
  ELSE LET o1 == send(o, echo(inv, 100, 0, "INVITE"), up)
           o2 == send(o1, [echo(inv, 180, tag, "INVITE") EXCEPT !.contact = TRUE], up)
       IN [call |-> [NoCall EXCEPT !.state = "ringing-in", !.callId = inv.callId,
                                   !.localTag = tag, !.cseq = 1,
                                   !.remoteSdp = inv.sdp,
                                   !.incomingVia = inv.via,
                                   !.incomingFrom = inv.from,
                                   !.incomingTo = inv.to,
                                   !.incomingCSeq = inv.cseq],
           engines |-> eng,
           out |-> emitAll(o2, << <<"log", "call">>,
                                  <<"callState", "ringing-in", "caller">> >>)]

\* _handleBye
handleBye(c, eng, o, req, up) ==
  endCall(c, eng, emit(send(o, echo(req, 200, 0, "BYE"), up), <<"log", "sip">>),
          "Remote hangup")

\* _handleIncomingCancel
handleIncomingCancel(c, eng, o, req, up) ==
  LET o1 == send(o, echo(req, 200, 0, "CANCEL"), up)
      o2 == IF c.state = "ringing-in" THEN send(o1, build487(c), up) ELSE o1
  IN endCall(c, eng, emit(o2, <<"log", "call">>), "Cancelled")

\* ------------------------------------------------------------ history
NoTxn == [callId |-> 0, tag |-> 0]

\* The INVITE server transaction lasts while the call record rings for it.
TxnAfter(txn, c) == IF c.state = "ringing-in" THEN txn ELSE NoTxn

NoInvite == [cseq |-> 0, branch |-> 0]

InvitesAfter(old, c, msgs) ==
  LET sentInv == { j \in DOMAIN msgs : msgs[j].method = "INVITE" }
  IN IF c.state = "none" \/ c.targetUri = "undefined" THEN NoInvite
     ELSE IF sentInv = {} THEN old
     ELSE LET m == msgs[CHOOSE j \in sentInv : TRUE]
          IN [cseq |-> m.cseq, branch |-> m.via]

\* ------------------------------------------------------------ initial states
InitUa ==
  /\ call = NoCall
  /\ engines = [e \in EngineIds |-> NoEngine]
  /\ pendInvite = {} /\ pendAnswer = {}
  /\ sent = <<>> /\ events = <<>>
  /\ lastOp = [op |-> "init", arg |-> 0]
  /\ uasTag = NoTxn
  /\ lastInvite = NoInvite
  /\ stopTimers = 0 /\ regDns = 0 /\ regConn = 0
  /\ registerRetryTimer = FALSE /\ registerRetryCount = 0
  /\ retryRun = -1 /\ retrySent = 0

\* No packet has been sent.
NoPkt == [sent |-> FALSE, seq |-> 0, hi |-> 0, lo |-> 0]

\* The last packet sent, after a step that leaves the packets ps.
PktAfter(old, ps) ==
  IF ps = <<>> THEN old
  ELSE [sent |-> TRUE, seq |-> ps[Len(ps)].seq, hi |-> ps[Len(ps)].hi,
        lo |-> ps[Len(ps)].lo]

\* No engine is run on its own.
RtpIdle ==
  /\ rtp = NewRtp(0, [hi |-> 0, lo |-> 0, signed |-> FALSE])
  /\ pkts = <<>> /\ lastPkt = NoPkt
  /\ nTicks = 0 /\ nFed = 0 /\ discarded = {} /\ heard = 0

\* No TCP stream is read.
FramerIdle ==
  stream = <<>> /\ nRead = 0 /\ tcpBuffer = <<>> /\ delivered = <<>>

\* No sample is being converted.
CodecIdle ==
  codec = [law |-> "none", stage |-> 0, pcm |-> 0, byte |-> -1, first |-> -1]

InitCommon == InitUa /\ RtpIdle /\ FramerIdle /\ CodecIdle

\* The state the constructor leaves.
Init ==
  /\ InitCommon
  /\ transport \in {"udp", "tcp"}
  /\ udpSocket = FALSE /\ tcpSocket = FALSE /\ tcpConnected = FALSE
  /\ tcpAlive = FALSE
  /\ registered = FALSE /\ registerTimer = FALSE
  /\ registerCSeq = 0 /\ regCSeqSent = 0 /\ respEver = FALSE
  /\ regPromise = "none"

\* The state after register() and the registrar's 200: transport open,
\* registered, refresh timer running.
Registered ==
  /\ InitCommon
  /\ udpSocket = (transport = "udp") /\ tcpSocket = (transport = "tcp")
  /\ tcpConnected = (transport = "tcp") /\ tcpAlive = (transport = "tcp")
  /\ registered = TRUE /\ registerTimer = TRUE
  /\ registerCSeq = 1 /\ regCSeqSent = 1 /\ respEver = TRUE
  /\ regPromise = "resolved"

InitRegistered == transport = "udp" /\ Registered

InitRegisteredTcp == transport = "tcp" /\ Registered


\* ------------------------------------------------------------ committing a step
Out(o) == sent' = o.sent /\ events' = o.events

\* The step is an operation of the user agent: the engine run on its own and
\* the stream framer run on its own are not involved.
Op(name, arg) ==
  lastOp' = [op |-> name, arg |-> arg] /\ UNCHANGED <<rtpVars, framerVars, codec>>

RegHistory(o) == regCSeqSent' = RegSentAfter(o, regCSeqSent)

\* A step of call handling that ran a handler with result r.
CallStep(r) ==
  /\ call' = r.call /\ engines' = r.engines /\ Out(r.out)
  /\ uasTag' = TxnAfter(uasTag, r.call)
  /\ lastInvite' = InvitesAfter(lastInvite, r.call, r.out.sent)

\* ------------------------------------------------------------ registration
\* register(): suspends in start() (resolveHostname, getLocalIp).
RegisterCall ==
  /\ regDns + regConn < MaxInFlight
  /\ regDns' = regDns + 1
  /\ Out(NoOut) /\ Op("register", 0)
  /\ regPromise' = "pending"
  /\ UNCHANGED <<transportVars, registered, registerTimer, registerRetryTimer,
                 registerRetryCount, registerCSeq, stopTimers, regConn,
                 callVars, regHist, callHist>>

\* start() after its awaits: _startUdp / _startTcp / _startTls create the socket.
StartTransport ==
  /\ regDns > 0
  /\ regDns' = regDns - 1 /\ regConn' = regConn + 1
  /\ \E dnsOk \in BOOLEAN :
       Out(emitAll(NoOut, << <<"log", IF dnsOk THEN "info" ELSE "error">>,
                             <<"log", "info">>, <<"log", "info">> >>))
  /\ Op("start", 0)
  /\ UNCHANGED regPromise
  /\ IF transport = "udp"
     THEN udpSocket' = TRUE /\ UNCHANGED <<tcpSocket, tcpConnected, tcpAlive>>
     ELSE tcpSocket' = TRUE /\ tcpConnected' = FALSE /\ tcpAlive' = TRUE
          /\ UNCHANGED udpSocket
  /\ retryRun' = IF transport = "udp" THEN retryRun ELSE -1
  /\ UNCHANGED <<transport, registered, registerTimer, registerRetryTimer,
                 registerRetryCount, registerCSeq, stopTimers, callVars,
                 regCSeqSent, retrySent, respEver, callHist>>

\* The bind / connect callback resolves start(); register() continues:
\* CSeq + 1, retry count 0, REGISTER sent, retry timer started.
RegisterResume ==
  /\ regConn > 0
  /\ IF transport = "udp" THEN udpSocket ELSE tcpSocket /\ tcpAlive
  /\ registerCSeq < MaxCSeq
  /\ regConn' = regConn - 1
  /\ tcpConnected' = (transport = "tcp")
  /\ registerCSeq' = registerCSeq + 1
  /\ registerRetryCount' = 0
  /\ registerRetryTimer' = TRUE
  /\ LET o == send(emitAll(NoOut, << <<"log", "sip">>, <<"log", "sip">>,
                                     <<"status", "connecting", "Registering...">> >>),
                   buildRegister(registerCSeq + 1, 300, Fresh(BranchesInUse)), TRUE)
     IN Out(o) /\ RegHistory(o)
  /\ Op("registerResume", 0)
  /\ regPromise' = "resolved"
  /\ retryRun' = 0 /\ retrySent' = 0
  /\ UNCHANGED <<transport, udpSocket, tcpSocket, tcpAlive, registered,
                 registerTimer, stopTimers, regDns, callVars, respEver, callHist>>

\* The retry timer fires.
RetryTimeout ==
  /\ registerRetryTimer
  /\ Op("retryTimeout", 0)
  /\ UNCHANGED regPromise
  /\ retryRun' = IF retryRun >= 0 THEN retryRun + 1 ELSE -1
  /\ IF registered
     THEN /\ registerRetryTimer' = FALSE
          /\ Out(NoOut)
          /\ UNCHANGED <<registerRetryCount, registerCSeq, regCSeqSent, retrySent>>
     ELSE /\ registerRetryCount' = registerRetryCount + 1
          /\ IF RetryExhausted(registerRetryCount + 1)
             THEN /\ registerRetryTimer' = FALSE
                  /\ Out(emitAll(NoOut, << <<"log", "error">>,
                        <<"status", "disconnected", "No response from server">> >>))
                  /\ UNCHANGED <<registerCSeq, regCSeqSent, retrySent>>
             ELSE /\ registerCSeq < MaxCSeq
                  /\ registerCSeq' = registerCSeq + 1
                  /\ registerRetryTimer' = TRUE
                  /\ LET o == send(emit(NoOut, <<"log", "warn">>),
                                   buildRegister(registerCSeq + 1, 300,
                                                 Fresh(BranchesInUse)),
                                   TransportUp)
                     IN Out(o) /\ RegHistory(o)
                        /\ retrySent' = retrySent + Cardinality(Registers(o.sent))
  /\ UNCHANGED <<transportVars, registered, registerTimer, stopTimers, regDns,
                 regConn, callVars, respEver, callHist>>

\* A response with CSeq method REGISTER arrives: _handleRegisterResponse.
RecvRegisterResponse(status, hasAuth) ==
  /\ CanReceive
  /\ Op("recvRegisterResponse", status)
  /\ UNCHANGED regPromise
  /\ respEver' = TRUE /\ retryRun' = -1
  /\ IF status \in {401, 407}
     THEN IF ~hasAuth
          THEN /\ registerRetryTimer' = FALSE
               /\ Out(emitAll(received, << <<"log", "error">>, <<"log", "debug">> >>))
               /\ UNCHANGED <<registered, registerTimer, registerRetryCount,
                              registerCSeq, regCSeqSent>>
          ELSE /\ registerCSeq < MaxCSeq
               /\ registerCSeq' = AuthRegisterCSeq(registerCSeq)
               /\ registerRetryTimer' = TRUE
               /\ LET o == send(emit(received, <<"log", "sip">>),
                                buildRegisterWithAuth(registerCSeq', 300,
                                                      Fresh(BranchesInUse)),
                                TransportUp)
                  IN Out(o) /\ RegHistory(o)
               /\ UNCHANGED <<registered, registerTimer, registerRetryCount>>
     ELSE IF status = 200
     THEN /\ registered' = TRUE /\ registerRetryCount' = 0
          /\ registerTimer' = TRUE /\ registerRetryTimer' = FALSE
          /\ Out(emitAll(received, << <<"log", "call">>,
                                      <<"status", "connected", "Registered">> >>))
          /\ UNCHANGED <<registerCSeq, regCSeqSent>>
     ELSE /\ registerRetryTimer' = FALSE
          /\ Out(emitAll(received, << <<"log", "error">>,
                                      <<"status", "disconnected", "Reg failed">> >>))
          /\ UNCHANGED <<registered, registerTimer, registerRetryCount,
                         registerCSeq, regCSeqSent>>
  /\ UNCHANGED <<transportVars, stopTimers, regDns, regConn, callVars,
                 retrySent, callHist>>

\* The refresh interval fires: a plain REGISTER with the next CSeq.
RefreshTick ==
  /\ registerTimer
  /\ registerCSeq < MaxCSeq
  /\ registerCSeq' = registerCSeq + 1
  /\ LET o == send(emit(NoOut, <<"log", "sip">>),
                   buildRegister(registerCSeq + 1, 300, Fresh(BranchesInUse)),
                   TransportUp)
     IN Out(o) /\ RegHistory(o)
  /\ Op("refresh", 0)
  /\ UNCHANGED regPromise
  /\ UNCHANGED <<transportVars, registered, registerTimer, registerRetryTimer,
                 registerRetryCount, stopTimers, regDns, regConn, callVars,
                 retryRun, retrySent, respEver, callHist>>

\* unregister()
Unregister ==
  /\ Op("unregister", 0)
  /\ UNCHANGED regPromise
  /\ IF ~udpSocket /\ ~tcpSocket
     THEN /\ Out(NoOut)
          /\ UNCHANGED <<registerCSeq, registerTimer, stopTimers, regCSeqSent>>
     ELSE /\ registerCSeq < MaxCSeq /\ stopTimers < MaxStopTimers
          /\ registerCSeq' = registerCSeq + 1
          /\ registerTimer' = FALSE
          /\ stopTimers' = stopTimers + 1
          /\ LET o == send(emit(NoOut, <<"log", "sip">>),
                           buildRegister(registerCSeq + 1, 0, Fresh(BranchesInUse)),
                           TransportUp)
             IN Out(o) /\ RegHistory(o)
  /\ UNCHANGED <<transportVars, registered, registerRetryTimer,
                 registerRetryCount, regDns, regConn, callVars, retryRun,
                 retrySent, respEver, callHist>>

\* stop(): timers cleared, hangup() if there is a call, sockets closed.
stop ==
  /\ registerTimer' = FALSE /\ registerRetryTimer' = FALSE
  /\ LET r == IF call.state # "none"
              THEN hangup(call, engines, NoOut, TransportUp,
                          Fresh(BranchesInUse), Fresh(TagsInUse))
              ELSE [call |-> call, engines |-> engines, out |-> NoOut]
     IN CallStep([r EXCEPT !.out = emit(@, <<"status", "disconnected", "Stopped">>)])
  /\ udpSocket' = FALSE /\ tcpSocket' = FALSE /\ tcpConnected' = FALSE
  /\ tcpAlive' = FALSE
  /\ registered' = FALSE
  /\ regConn' = 0
  /\ retryRun' = -1
  /\ UNCHANGED <<transport, registerRetryCount, registerCSeq, regDns, regPromise,
                 pendInvite, pendAnswer, regCSeqSent, retrySent, respEver>>

Stop == stop /\ Op("stop", 0) /\ UNCHANGED stopTimers

\* The 2 s timer of unregister() fires.
StopTimerFire ==
  /\ stopTimers > 0
  /\ stopTimers' = stopTimers - 1
  /\ stop /\ Op("stopTimer", 0)

\* The stream reports an error.
TcpError ==
  /\ transport = "tcp" /\ tcpSocket /\ tcpAlive
  /\ tcpConnected' = FALSE
  /\ regConn' = 0
  /\ Out(IF registered THEN emit(NoOut, <<"log", "error">>)
         ELSE emitAll(NoOut, << <<"log", "error">>,
                                <<"status", "disconnected", "TCP error">> >>))
  /\ Op("tcpError", 0)
  /\ regPromise' = IF regConn > 0 THEN "abandoned" ELSE regPromise
  /\ retryRun' = -1
  /\ UNCHANGED <<transport, udpSocket, tcpSocket, tcpAlive, registered,
                 registerTimer, registerRetryTimer, registerRetryCount,
                 registerCSeq, stopTimers, regDns, callVars, regCSeqSent,
                 retrySent, respEver, callHist>>

\* The 10 s connect timer of _startTcp fires before the connect callback: the
\* socket is destroyed and start(), and with it register(), rejects.
ConnectTimeout ==
  /\ transport = "tcp" /\ tcpSocket /\ tcpAlive /\ ~tcpConnected
  /\ regConn > 0
  /\ regConn' = regConn - 1
  /\ regPromise' = "rejected"
  /\ Out(emit(NoOut, <<"log", "error">>))
  /\ Op("connectTimeout", 0)
  /\ retryRun' = -1
  /\ UNCHANGED <<transportVars, registered, registerTimer, registerRetryTimer,
                 registerRetryCount, registerCSeq, stopTimers, regDns,
                 callVars, regCSeqSent, retrySent, respEver, callHist>>

\* The stream closes.
TcpClose ==
  /\ transport = "tcp" /\ tcpSocket /\ tcpAlive
  /\ tcpAlive' = FALSE /\ tcpConnected' = FALSE /\ registered' = FALSE
  /\ regConn' = 0
  /\ Out(emitAll(NoOut, << <<"log", "warn">>,
                           <<"status", "disconnected", "TCP closed">> >>))
  /\ Op("tcpClose", 0)
  /\ UNCHANGED regPromise
  /\ retryRun' = -1
  /\ UNCHANGED <<transport, udpSocket, tcpSocket, registerTimer,
                 registerRetryTimer, registerRetryCount, registerCSeq,
                 stopTimers, regDns, callVars, regCSeqSent, retrySent,
                 respEver, callHist>>


\* ------------------------------------------------------------ calls
NewEngine == CHOOSE e \in EngineIds : FreeEngine(e) /\ \A f \in 1..(e - 1) : ~FreeEngine(f)

Quiet(o) ==
  /\ Out(o)
  /\ UNCHANGED <<call, engines, pendInvite, pendAnswer, callHist>>

\* invite(target) up to its await rtp.bind(); it returns at once (with a log
\* line only) when the UA is not registered or a call exists.
Invite ==
  /\ registered /\ call.state = "none"
  /\ \E e \in EngineIds : FreeEngine(e)
  /\ engines' = [engines EXCEPT ![NewEngine] = rtpBind(NoEngine)]
  /\ pendInvite' = pendInvite \cup {NewEngine}
  /\ Out(NoOut) /\ Op("invite", 0)
  /\ UNCHANGED <<call, pendAnswer, callHist>>
  /\ UNCHANGED <<transportVars, regVars, regHist>>

\* invite() after rtp.bind() resolved: the call record is written, the INVITE sent.
InviteResume(e) ==
  /\ e \in pendInvite
  /\ pendInvite' = pendInvite \ {e}
  /\ LET c == [NoCall EXCEPT !.state = "calling",
                             !.callId = Fresh({call.callId}),
                             !.fromTag = Fresh(TagsInUse),
                             !.targetUri = "target",
                             !.rtpEngine = e,
                             !.cseq = 1,
                             !.branch = Fresh(BranchesInUse),
                             !.localSdp = buildSdp(e)]
         o == send(emitAll(NoOut, << <<"log", "debug">>, <<"log", "call">>,
                                     <<"log", "sip">>,
                                     <<"callState", "calling", "target">> >>),
                   buildInvite(c, c.localSdp), TransportUp)
     IN /\ call' = c /\ Out(o)
        /\ lastInvite' = [cseq |-> c.cseq, branch |-> c.branch]
  /\ Op("inviteResume", e)
  /\ uasTag' = NoTxn
  /\ UNCHANGED <<transportVars, regVars, regHist, engines, pendAnswer>>

\* answerIncoming() up to its await rtp.bind().
Answer ==
  /\ Op("answerIncoming", 0)
  /\ IF call.state # "ringing-in" THEN Quiet(emit(NoOut, <<"log", "warn">>))
     ELSE /\ \E e \in EngineIds : FreeEngine(e)
          /\ engines' = [engines EXCEPT ![NewEngine] = rtpBind(NoEngine)]
          /\ pendAnswer' = pendAnswer \cup {NewEngine}
          /\ Out(NoOut)
          /\ UNCHANGED <<call, pendInvite, callHist>>
  /\ UNCHANGED <<transportVars, regVars, regHist>>

\* The body of answerIncoming() after rtp.bind() resolved, on call record c.
answerContinue(c, eng, o, e, up) ==
  IF c.state = "none" THEN [call |-> c, engines |-> eng, out |-> threw(o)]
  ELSE LET c1 == [c EXCEPT !.rtpEngine = e, !.localSdp = buildSdp(e)]
           started == c1.remoteSdp.media
           eng1 == IF started
                   THEN [eng EXCEPT ![e] = rtpStart(@, c1.remoteSdp.ep,
                                                    FirstPt(c1.remoteSdp.pts))]
                   ELSE eng
           o1 == IF started
                 THEN emitAll(o, << <<"log", "debug">>, <<"log", "sip">> >>)
                 ELSE o
           o2 == send(o1, build200ForInvite(c1, c1.localSdp), up)
       IN [call |-> [c1 EXCEPT !.state = "active"], engines |-> eng1,
           out |-> emitAll(o2, << <<"log", "call">>,
                                  <<"callState", "active", "caller">> >>)]

AnswerResume(e) ==
  /\ e \in pendAnswer
  /\ pendAnswer' = pendAnswer \ {e}
  /\ CallStep(answerContinue(call, engines, emit(NoOut, <<"log", "debug">>), e,
                             TransportUp))
  /\ Op("answerResume", e)
  /\ UNCHANGED <<transportVars, regVars, regHist, pendInvite>>

\* hangup()
Hangup ==
  /\ CallStep(hangup(call, engines, NoOut, TransportUp,
                     Fresh(BranchesInUse), Fresh(TagsInUse)))
  /\ Op("hangup", 0)
  /\ UNCHANGED <<transportVars, regVars, regHist, pendInvite, pendAnswer>>

\* sendDtmf(digit); it returns at once unless the call is active.
SendDtmf ==
  /\ call.state = "active"
  /\ call.cseq < MaxCallCSeq
  /\ call' = [call EXCEPT !.cseq = @ + 1]
  /\ Out(emit(send(NoOut, buildInfo(call', Fresh(BranchesInUse)),
                   TransportUp), <<"log", "sip">>))
  /\ Op("sendDtmf", 0)
  /\ UNCHANGED <<engines, pendInvite, pendAnswer, callHist>>
  /\ UNCHANGED <<transportVars, regVars, regHist>>

\* The responses to INVITE a peer sends: status, To-tag, the CSeq number of the
\* last INVITE of the call (1 when the UA sent none), body, challenge header.
InviteResponses ==
  { [status |-> st, toTag |-> tag, cseq |-> n, sdp |-> sdp, auth |-> au] :
      st \in {100, 180, 200, 401, 404},
      tag \in RemoteTags,
      n \in {IF lastInvite.cseq = 0 THEN 1 ELSE lastInvite.cseq},
      sdp \in RemoteSdps \cup {NoSdp},
      au \in BOOLEAN }

\* A response with CSeq method INVITE arrives.  A 100 carries no To-tag, a
\* final response carries one; only a 200 has a body, only a 401/407 a challenge.
RecvInviteResponse(r) ==
  /\ CanReceive
  /\ r.status = 100 => r.toTag = 0
  /\ r.status >= 200 => r.toTag # 0
  /\ r.status # 200 => r.sdp = NoSdp
  /\ r.status \notin {401, 407} => r.auth = FALSE
  /\ (r.status \in {401, 407} /\ r.auth /\ call.state # "none") =>
        call.cseq < MaxCallCSeq
  /\ (r.status = 200 /\ r.sdp.media /\ call.rtpEngine # 0) =>
        engines[call.rtpEngine].timers < MaxTimers
  /\ LET b1 == Fresh(BranchesInUse)
     IN CallStep(handleInviteResponse(call, engines, received, r, TransportUp,
                                      b1, Fresh(BranchesInUse \cup {b1})))
  /\ Op("recvInviteResponse", r)
  /\ UNCHANGED <<transportVars, regVars, regHist, pendInvite, pendAnswer>>

\* An INVITE request arrives.
RecvInvite(inv) ==
  /\ CanReceive
  /\ LET tag == Fresh(TagsInUse)
         r == handleIncomingInvite(call, engines, received, inv, TransportUp, tag)
     IN /\ call' = r.call /\ engines' = r.engines /\ Out(r.out)
        /\ lastInvite' = InvitesAfter(lastInvite, r.call, r.out.sent)
        /\ uasTag' = IF IsBusy(call) \/ uasTag.callId = inv.callId THEN uasTag
                     ELSE [callId |-> inv.callId, tag |-> tag]
  /\ Op("recvInvite", inv)
  /\ UNCHANGED <<transportVars, regVars, regHist, pendInvite, pendAnswer>>

\* A BYE request arrives.
RecvBye(req) ==
  /\ CanReceive
  /\ CallStep(handleBye(call, engines, received, req, TransportUp))
  /\ Op("recvBye", req)
  /\ UNCHANGED <<transportVars, regVars, regHist, pendInvite, pendAnswer>>

\* A CANCEL request arrives.
RecvCancel(req) ==
  /\ CanReceive
  /\ CallStep(handleIncomingCancel(call, engines, received, req, TransportUp))
  /\ Op("recvCancel", req)
  /\ UNCHANGED <<transportVars, regVars, regHist, pendInvite, pendAnswer>>

\* ------------------------------------------------------------ specifications
RegisterNext ==
  \/ RegisterCall
  \/ StartTransport
  \/ RegisterResume
  \/ RetryTimeout
  \/ \E st \in {200, 401, 407, 403}, au \in BOOLEAN : RecvRegisterResponse(st, au)
  \/ RefreshTick
  \/ Unregister
  \/ Stop
  \/ StopTimerFire
  \/ TcpError
  \/ ConnectTimeout
  \/ TcpClose

CallNext ==
  \/ Invite
  \/ \E e \in EngineIds : InviteResume(e)
  \/ Answer
  \/ \E e \in EngineIds : AnswerResume(e)
  \/ Hangup
  \/ SendDtmf
  \/ \E r \in InviteResponses : RecvInviteResponse(r)
  \/ \E inv \in Invites : RecvInvite(inv)
  \/ \E req \in InDialogRequests : RecvBye(req)
  \/ \E req \in CancelRequests : RecvCancel(req)
  \/ Stop

CallTcpNext ==
  \/ CallNext
  \/ TcpError
  \/ TcpClose

\* Registration and transport, from construction.
SpecRegister == Init /\ [][RegisterNext]_vars

\* Timers that are armed fire, and start() and register() resume once their
\* awaits resolve; the registrar and the caller are not obliged to do anything.
RegisterFairness ==
  /\ WF_vars(StartTransport)
  /\ WF_vars(RegisterResume)
  /\ WF_vars(RetryTimeout)
  /\ WF_vars(RefreshTick)
  /\ WF_vars(StopTimerFire)

SpecRegisterLive == SpecRegister /\ RegisterFairness

\* Call handling of a registered UA, over UDP.
SpecCall == InitRegistered /\ [][CallNext]_vars

\* Call handling of a registered UA, over a TCP stream that can fail.
SpecCallTcp == InitRegisteredTcp /\ [][CallTcpNext]_vars

\* ------------------------------------------------- answering an offer
\* The payload-type lists of the m=audio line of an offer, as parseSdp reads
\* them: 0 is PCMU, 8 is PCMA, 9 is G722, 101 is telephone-event.
OfferedPts ==
  { <<a>> : a \in {0, 8, 9, 101} } \cup
  { <<a, b>> : a \in {0, 8, 9, 101}, b \in {0, 8, 9, 101} }

\* Incoming INVITEs carrying an offer.
Offers ==
  { [callId |-> 103, via |-> 203, from |-> "fromC", to |-> "toC", cseq |-> 3,
     sdp |-> [media |-> TRUE, ep |-> 701, pts |-> p]] : p \in OfferedPts }

AnswerNext ==
  \/ \E inv \in Offers : RecvInvite(inv)
  \/ Answer
  \/ \E e \in EngineIds : AnswerResume(e)
  \/ Hangup

SpecAnswer == InitRegistered /\ [][AnswerNext]_vars

\* ------------------------------------------------------------ one RTP engine
\* The random counters the constructor draws: Math.floor(Math.random() *
\* 0xFFFF) and Math.floor(Math.random() * 0xFFFFFFFF).
Counters ==
  { [seq |-> 0, ts |-> [hi |-> 0, lo |-> 0, signed |-> FALSE]],
    [seq |-> Wrap16 - 2,
     ts |-> [hi |-> SignBit - 1, lo |-> Wrap16 - 2 * SAMPLES_PER_PACKET,
             signed |-> FALSE]],
    [seq |-> SignBit, ts |-> [hi |-> SignBit, lo |-> 0, signed |-> FALSE]],
    [seq |-> SignBit - 1,
     ts |-> [hi |-> Wrap16 - 1, lo |-> Wrap16 - SAMPLES_PER_PACKET,
             signed |-> FALSE]] }

\* The endpoints an SDP names (0: no address) and datagrams come from.
SdpEps == {0, ZeroEp, 701}

SourceEps == {701, 702}

\* The datagrams that reach the RTP socket.
Datagrams ==
  { [len |-> 172, version |-> 2, pt |-> t, src |-> a] :
      t \in {0, 96}, a \in SourceEps }
  \cup { [len |-> 11, version |-> 2, pt |-> 0, src |-> 702],
         [len |-> 12, version |-> 2, pt |-> 0, src |-> 702],
         [len |-> 172, version |-> 1, pt |-> 0, src |-> 702] }

InitRtp ==
  /\ InitUa
  /\ transport = "udp"
  /\ udpSocket = FALSE /\ tcpSocket = FALSE /\ tcpConnected = FALSE
  /\ tcpAlive = FALSE
  /\ registered = FALSE /\ registerTimer = FALSE
  /\ registerCSeq = 0 /\ regCSeqSent = 0 /\ respEver = FALSE
  /\ regPromise = "none"
  /\ \E c \in Counters : rtp = NewRtp(c.seq, c.ts)
  /\ pkts = <<>> /\ lastPkt = NoPkt
  /\ nTicks = 0 /\ nFed = 0 /\ discarded = {} /\ heard = 0
  /\ FramerIdle /\ CodecIdle

uaVars == <<transportVars, regVars, callVars, regHist, callHist>>

\* A step of the engine: the user agent is not involved.
RtpStep(name, arg, es) ==
  /\ lastOp' = [op |-> name, arg |-> arg]
  /\ sent' = <<>> /\ events' = es
  /\ lastPkt' = PktAfter(lastPkt, pkts)
  /\ UNCHANGED <<uaVars, framerVars, codec>>

RtpBind ==
  /\ ~rtp.socket
  /\ rtp' = rtpBind(rtp)
  /\ RtpStep("rtp.bind", 0, << <<"log", "rtp">> >>)
  /\ pkts' = <<>>
  /\ UNCHANGED <<nTicks, nFed, discarded, heard>>

RtpStart ==
  \E ep \in SdpEps, pt \in {0, 8} :
    /\ rtp.timers < MaxTimers
    /\ rtp' = rtpStart(rtp, ep, pt)
    /\ RtpStep("rtp.start", ep, << <<"log", "rtp">> >>)
    /\ pkts' = <<>> /\ heard' = 0
    /\ UNCHANGED <<nTicks, nFed, discarded>>

RtpStop ==
  /\ rtp' = stopEngine(rtp)
  /\ RtpStep("rtp.stop", 0, <<>>)
  /\ pkts' = <<>>
  /\ UNCHANGED <<nTicks, nFed, discarded, heard>>

RtpClose ==
  /\ rtp' = closeEngine(rtp)
  /\ RtpStep("rtp.close", 0, <<>>)
  /\ pkts' = <<>>
  /\ UNCHANGED <<nTicks, nFed, discarded, heard>>

RtpFeedMic ==
  /\ nFed < MaxBlocks
  /\ nFed' = nFed + 1
  /\ rtp' = feedMicAudio(rtp, nFed + 1)
  /\ discarded' = IF rtp.muted THEN discarded \cup {nFed + 1}
                                             ELSE discarded
  /\ RtpStep("rtp.feedMicAudio", nFed + 1, <<>>)
  /\ pkts' = <<>>
  /\ UNCHANGED <<nTicks, heard>>

RtpSetMuted ==
  \E m \in BOOLEAN :
    /\ rtp' = setMuted(rtp, m)
    /\ discarded' = IF m THEN discarded \cup { rtp.mic[i] : i \in DOMAIN rtp.mic }
                         ELSE discarded
    /\ RtpStep("rtp.setMuted", IF m THEN 1 ELSE 0, <<>>)
    /\ pkts' = <<>>
    /\ UNCHANGED <<nTicks, nFed, heard>>

\* One callback of a running interval.
RtpTick ==
  /\ rtp.timers > 0
  /\ nTicks < MaxTicks
  /\ nTicks' = nTicks + 1
  /\ LET r == sendPacket(rtp)
     IN /\ rtp' = r.rtp
        /\ pkts' = r.pkts
        /\ RtpStep("rtp.tick", Len(r.pkts),
                   IF r.threw THEN << <<"throw", "RangeError">> >> ELSE <<>>)
  /\ UNCHANGED <<nFed, discarded, heard>>

RtpRecv ==
  \E p \in Datagrams :
    /\ rtp.socket
    /\ LET r == handleIncoming(rtp, p)
       IN rtp' = r.rtp /\ RtpStep("rtp.message", p.src, r.events)
    /\ heard' = IF heard = 0 /\ p.len >= 12 /\ p.version = 2 THEN p.src
                                                              ELSE heard
    /\ pkts' = <<>>
    /\ UNCHANGED <<nTicks, nFed, discarded>>

RtpNext ==
  \/ RtpBind \/ RtpStart \/ RtpStop \/ RtpClose
  \/ RtpFeedMic \/ RtpSetMuted \/ RtpTick \/ RtpRecv

\* One RtpEngine driven directly through its interface.
SpecRtp == InitRtp /\ [][RtpNext]_vars

\* ------------------------------------------------------------ TCP framing
\* A byte of the stream: k is "h" (a header byte), "CR", "LF" or "b" (a body
\* byte); cl is the value of the Content-Length header of the message the
\* byte belongs to, m and i say which message and which byte of it this is.
\* All bytes are ASCII, so a position in the decoded string is a position in
\* the buffer.
Wire(m, cl, b) ==
  [i \in 1..(5 + b) |->
     [k |-> IF i = 1 THEN "h"
            ELSE IF i \in {2, 4} THEN "CR"
            ELSE IF i \in {3, 5} THEN "LF" ELSE "b",
      cl |-> cl, m |-> m, i |-> i]]

\* A well-formed message: its Content-Length is the length of its body.
WellFormed(m, b) == Wire(m, b, b)

RECURSIVE Flatten(_)
Flatten(ms) == IF ms = <<>> THEN <<>> ELSE Head(ms) \o Flatten(Tail(ms))

Min(a, b) == IF a <= b THEN a ELSE b

\* str.indexOf('\r\n\r\n'), counted from 0; -1 when absent.
HeaderEnds(buf) ==
  { i \in 1..(Len(buf) - 3) :
      /\ buf[i].k = "CR" /\ buf[i + 1].k = "LF"
      /\ buf[i + 2].k = "CR" /\ buf[i + 3].k = "LF" }

headerEnd(buf) ==
  IF HeaderEnds(buf) = {} THEN -1
  ELSE (CHOOSE i \in HeaderEnds(buf) : \A j \in HeaderEnds(buf) : i <= j) - 1

\* The first Content-Length match in the header section str.substring(0, he),
\* 0 without a match.
contentLength(buf, he) ==
  LET hs == { i \in 1..he : buf[i].k = "h" }
  IN IF hs = {} THEN 0
     ELSE buf[CHOOSE i \in hs : \A j \in hs : i <= j].cl

\* Buffer.byteLength(str.substring(0, totalLength)): substring stops at the end
\* of the string.
totalBytes(buf, totalLength) == Min(totalLength, Len(buf))

\* The while loop of _handleTcpData on buffer buf, out being the messages
\* already passed to _handleMessage: the residual buffer and the messages.
RECURSIVE handleTcpLoop(_, _)
handleTcpLoop(buf, out) ==
  IF Len(buf) = 0 THEN [buf |-> buf, out |-> out]
  ELSE LET he == headerEnd(buf)
       IN IF he < 0 THEN [buf |-> buf, out |-> out]
          ELSE LET n == totalBytes(buf, he + 4 + contentLength(buf, he))
               IN IF Len(buf) < n THEN [buf |-> buf, out |-> out]
                  ELSE handleTcpLoop(SubSeq(buf, n + 1, Len(buf)),
                                     Append(out, SubSeq(buf, 1, n)))

\* The streams a peer writes: one to MaxMessages well-formed messages with
\* bodies of 0 to MaxBody bytes.
Streams ==
  UNION { { [m \in 1..n |-> WellFormed(m, bs[m])] : bs \in [1..n -> 0..MaxBody] } :
          n \in 1..MaxMessages }

InitFramer ==
  /\ InitUa /\ RtpIdle /\ CodecIdle
  /\ transport = "tcp"
  /\ udpSocket = FALSE /\ tcpSocket = TRUE /\ tcpConnected = TRUE
  /\ tcpAlive = TRUE
  /\ registered = FALSE /\ registerTimer = FALSE
  /\ registerCSeq = 0 /\ regCSeqSent = 0 /\ respEver = FALSE
  /\ regPromise = "none"
  /\ stream \in Streams
  /\ nRead = 0 /\ tcpBuffer = <<>> /\ delivered = <<>>

\* The socket's 'data' event with the next n bytes of the stream.
TcpData ==
  \E n \in 1..(Len(Flatten(stream)) - nRead) :
    LET r == handleTcpLoop(tcpBuffer \o SubSeq(Flatten(stream), nRead + 1, nRead + n),
                           <<>>)
    IN /\ nRead' = nRead + n
       /\ tcpBuffer' = r.buf
       /\ delivered' = delivered \o r.out
       /\ lastOp' = [op |-> "tcpData", arg |-> n]
       /\ sent' = <<>> /\ events' = << <<"log", "debug">> >>
       /\ UNCHANGED <<stream, uaVars, rtpVars, codec>>

FramerNext == TcpData

\* The TCP framer fed a stream of well-formed messages in arbitrary chunks.
SpecFramer == InitFramer /\ [][FramerNext]_vars

\* ------------------------------------------------------------ G.711
\* Bit operations of the codec on the values they meet.  x >> n on a 32-bit
\* integer is the floor of x / 2^n; "& mask" with mask 2^k - 1 is the
\* remainder modulo 2^k.
Shr(x, n) == x \div (2 ^ n)

Shl(x, n) == x * (2 ^ n)

RECURSIVE BitXor(_, _)
BitXor(a, b) ==
  IF a = 0 THEN b
  ELSE IF b = 0 THEN a
  ELSE ((a + b) % 2) + 2 * BitXor(a \div 2, b \div 2)

\* Math.floor(Math.log2(n)) for n >= 1
RECURSIVE FloorLog2(_)
FloorLog2(n) == IF n < 2 THEN 0 ELSE 1 + FloorLog2(n \div 2)

MULAW_BIAS == 132

MULAW_CLIP == 32635

Run(v, n) == [i \in 1..n |-> v]

\* mulawEncodeTable, indexed from 0 in the code and from 1 here.
mulawEncodeTable ==
  <<0, 0, 1, 1, 2, 2, 2, 2>> \o Run(3, 8) \o Run(4, 16) \o Run(5, 32)
  \o Run(6, 64) \o Run(7, 128)

pcmToMulaw(sample) ==
  LET sign == (((Shr(sample, 8) % 256) \div 128) % 2) * 128
      s1 == IF sign # 0 THEN -sample ELSE sample
      s2 == IF s1 > MULAW_CLIP THEN MULAW_CLIP ELSE s1
      s3 == s2 + MULAW_BIAS
      exponent == mulawEncodeTable[(Shr(s3, 7) % 256) + 1]
      mantissa == Shr(s3, exponent + 3) % 16
  IN 255 - (sign + Shl(exponent, 4) + mantissa)

mulawToPcm(mulawByte) ==
  LET b == 255 - (mulawByte % 256)
      sign == ((b \div 128) % 2) * 128
      exponent == Shr(b, 4) % 8
      mantissa == b % 16
      sample == Shl(Shl(mantissa, 3) + MULAW_BIAS, exponent) - MULAW_BIAS
  IN IF sign # 0 THEN -sample ELSE sample

pcmToAlaw(sample) ==
  LET sign == IF sample < 0 THEN 128 ELSE 0
      s1 == IF sample < 0 THEN -sample ELSE sample
      s2 == IF s1 > 32767 THEN 32767 ELSE s1
      e1 == FloorLog2(s2) - 4
      exponent == IF e1 > 7 THEN 7 ELSE e1
      mantissa == Shr(s2, exponent + 3) % 16
      companded == IF s2 >= 256 THEN Shl(exponent, 4) + mantissa
                                ELSE Shr(s2, 4)
  IN BitXor(companded + sign, 85)

alawToPcm(alawByte) ==
  LET b == BitXor(alawByte, 85)
      sign == ((b \div 128) % 2) * 128
      exponent == Shr(b, 4) % 8
      mantissa == b % 16
      sample == IF exponent = 0 THEN Shl(mantissa, 4) + 8
                ELSE Shl(Shl(mantissa, 3) + MULAW_BIAS, exponent)
  IN IF sign # 0 THEN -sample ELSE sample

\* The signed 16-bit samples of an Int16Array.
Samples == (-32768)..32767

InitCodec ==
  /\ InitUa /\ RtpIdle /\ FramerIdle
  /\ transport = "udp"
  /\ udpSocket = FALSE /\ tcpSocket = FALSE /\ tcpConnected = FALSE
  /\ tcpAlive = FALSE
  /\ registered = FALSE /\ registerTimer = FALSE
  /\ registerCSeq = 0 /\ regCSeqSent = 0 /\ respEver = FALSE
  /\ regPromise = "none"
  /\ \E law \in {"ulaw", "alaw"}, x \in Samples :
       codec = [law |-> law, stage |-> 0, pcm |-> x, byte |-> -1, first |-> -1]

\* A step that applies one codec function to the sample in hand.
CodecStep(name, c) ==
  /\ codec' = c
  /\ lastOp' = [op |-> name, arg |-> 0]
  /\ sent' = <<>> /\ events' = <<>>
  /\ UNCHANGED <<uaVars, rtpVars, framerVars>>

Encoded(b) ==
  [codec EXCEPT !.byte = b, !.stage = @ + 1,
                !.first = IF codec.stage = 0 THEN b ELSE @]

PcmToMulaw ==
  /\ codec.law = "ulaw" /\ codec.stage \in {0, 2}
  /\ CodecStep("pcmToMulaw", Encoded(pcmToMulaw(codec.pcm)))

MulawToPcm ==
  /\ codec.law = "ulaw" /\ codec.stage = 1
  /\ CodecStep("mulawToPcm",
               [codec EXCEPT !.pcm = mulawToPcm(codec.byte), !.stage = 2])

PcmToAlaw ==
  /\ codec.law = "alaw" /\ codec.stage \in {0, 2}
  /\ CodecStep("pcmToAlaw", Encoded(pcmToAlaw(codec.pcm)))

AlawToPcm ==
  /\ codec.law = "alaw" /\ codec.stage = 1
  /\ CodecStep("alawToPcm",
               [codec EXCEPT !.pcm = alawToPcm(codec.byte), !.stage = 2])

CodecNext == PcmToMulaw \/ MulawToPcm \/ PcmToAlaw \/ AlawToPcm

\* Every 16-bit sample encoded, decoded and encoded again, in both laws.
SpecCodec == InitCodec /\ [][CodecNext]_vars

\* ------------------------------------------------------------ properties
Range(f) == { f[i] : i \in DOMAIN f }

CallStateEvents(es) == { i \in DOMAIN es : es[i][1] = "callState" }

Acks(msgs) == { i \in DOMAIN msgs : msgs[i].method = "ACK" }

\* Message m is a response with the given status that carries Via, From, To,
\* Call-ID and CSeq number of request r.
Echoes(m, r, status, method) ==
  /\ m.kind = "response" /\ m.status = status
  /\ m.via = r.via /\ m.from = r.from /\ m.to = r.to
  /\ m.callId = r.callId /\ m.cseq = r.cseq /\ m.cseqMethod = method

\* Message m is a response with the given status to the INVITE stored in call
\* record c.
AnswersStored(m, c, status) ==
  /\ m.kind = "response" /\ m.status = status
  /\ m.via = c.incomingVia /\ m.from = c.incomingFrom /\ m.to = c.incomingTo
  /\ m.callId = c.callId /\ m.cseq = c.incomingCSeq /\ m.cseqMethod = "INVITE"

\* C1: an INVITE received while the call is active is answered with exactly
\* one 486 that echoes the INVITE's Via, From, To, Call-ID and CSeq; the call
\* record and the RTP engines stay as they were and no callState event is
\* emitted.
C1_BusyInviteLeavesCall ==
  [][(lastOp'.op = "recvInvite" /\ call.state = "active") =>
       /\ Len(sent') = 1
       /\ Echoes(sent'[1], lastOp'.arg, 486, "INVITE")
       /\ call' = call
       /\ engines' = engines
       /\ CallStateEvents(events') = {}]_vars

C1_Witness ==
  /\ lastOp.op = "recvInvite" /\ call.state = "active"
  /\ Len(sent) = 1 /\ sent[1].status = 486 /\ sent[1].cseq = 7

\* C2: every REGISTER written to the transport has a CSeq number strictly
\* greater than the CSeq number of the REGISTER written before it, whatever
\* produced it: register(), a retry timeout, a 401/407 challenge, the refresh
\* timer or unregister().
C2_RegisterCSeqIncreases ==
  [][\A i \in Registers(sent') :
        /\ sent'[i].cseq > regCSeqSent
        /\ \A j \in Registers(sent') : j < i => sent'[j].cseq < sent'[i].cseq]_vars

C2_Witness ==
  /\ lastOp.op = "recvRegisterResponse"
  /\ \E i \in Registers(sent) : sent[i].auth /\ sent[i].cseq >= 3

C4_ActiveNeverRegresses ==
  [][(call.state = "active" /\ call.targetUri = "target"
      /\ call'.callId = call.callId) =>
       call'.state \notin {"ringing", "calling"}]_vars

\* C5: hangup() sends one CANCEL on the INVITE's branch when calling, one 486
\* for the stored INVITE when ringing-in, one BYE on a new branch with the
\* dialog CSeq plus one when active; in each case the call's RTP engine is
\* closed, the call is gone and exactly one callState event, idle, is emitted;
\* with no call nothing is sent and nothing changes.
C5_HangupByState ==
  [][lastOp'.op = "hangup" =>
       /\ call.state = "calling" =>
            /\ Len(sent') = 1 /\ sent'[1].method = "CANCEL"
            /\ sent'[1].via = lastInvite.branch
       /\ call.state = "ringing-in" =>
            /\ Len(sent') = 1 /\ AnswersStored(sent'[1], call, 486)
       /\ call.state = "active" =>
            /\ Len(sent') = 1 /\ sent'[1].method = "BYE"
            /\ sent'[1].via \notin {call.branch, lastInvite.branch}
            /\ sent'[1].cseq = call.cseq + 1
       /\ call.state \in {"calling", "ringing-in", "active"} =>
            /\ call'.state = "none"
            /\ call.rtpEngine # 0 =>
                 /\ ~engines'[call.rtpEngine].socket
                 /\ ~engines'[call.rtpEngine].active
            /\ Cardinality(CallStateEvents(events')) = 1
            /\ \A i \in CallStateEvents(events') : events'[i][2] = "idle"
       /\ call.state = "none" =>
            /\ sent' = <<>> /\ call' = call /\ engines' = engines
            /\ CallStateEvents(events') = {}]_vars

\* C6: a CANCEL received while the call is ringing-in is answered with 200 for
\* the CANCEL, then 487 for the stored INVITE (its Via, From, Call-ID, CSeq,
\* and To with the call's local tag); the call is gone and the one callState
\* event emitted is idle with reason Cancelled.
C6_CancelWhileRingingIn ==
  [][(lastOp'.op = "recvCancel" /\ call.state = "ringing-in") =>
       /\ Len(sent') = 2
       /\ Echoes(sent'[1], lastOp'.arg, 200, "CANCEL")
       /\ AnswersStored(sent'[2], call, 487)
       /\ sent'[2].toTag = call.localTag /\ call.localTag # 0
       /\ call'.state = "none"
       /\ Cardinality(CallStateEvents(events')) = 1
       /\ \A i \in CallStateEvents(events') :
            events'[i] = <<"callState", "idle", "Cancelled">>]_vars

C6_Witness ==
  /\ lastOp.op = "recvCancel" /\ call.state = "none"
  /\ Len(sent) = 2 /\ sent[1].status = 200 /\ sent[2].status = 487
  /\ sent[2].toTag # 0

\* C7: every response after the first 180 to the INVITE the call record rings
\* for (a further 180, the 200 on answer, the 486 on hangup, the 487 on
\* CANCEL) carries the To-tag of that first 180.
C7_OneTagPerInvite ==
  [][\A i \in DOMAIN sent' :
        (/\ uasTag.callId # 0
         /\ sent'[i].kind = "response" /\ sent'[i].cseqMethod = "INVITE"
         /\ sent'[i].status >= 180 /\ sent'[i].callId = uasTag.callId) =>
            sent'[i].toTag = uasTag.tag]_vars

\* C8: answerIncoming() invoked in ringing-in completes by sending exactly one
\* 200 with an SDP body, with the call active on the engine it bound, RTP
\* started toward the endpoint of the offer when there is one, and callState
\* active emitted; invoked in any other situation it sends nothing, binds no
\* engine and changes nothing.
C8_AnswerCompletes ==
  [][/\ lastOp'.op = "answerResume" =>
          /\ Len(sent') = 1 /\ sent'[1].status = 200 /\ sent'[1].sdp.media
          /\ call'.state = "active" /\ call'.rtpEngine = lastOp'.arg
          /\ engines'[lastOp'.arg].socket
          /\ call.remoteSdp.media =>
               /\ engines'[lastOp'.arg].active
               /\ engines'[lastOp'.arg].remote = call.remoteSdp.ep
          /\ \E i \in DOMAIN events' : events'[i][1] = "callState"
                                       /\ events'[i][2] = "active"
     /\ (lastOp'.op = "answerIncoming" /\ call.state # "ringing-in") =>
          /\ sent' = <<>> /\ call' = call /\ engines' = engines
          /\ pendAnswer' = pendAnswer]_vars

\* C9: the ACK sent when a 200 to the UA's INVITE is processed carries the
\* CSeq number of that INVITE and a Via branch other than the INVITE's.
C9_AckFor200 ==
  [][(/\ lastOp'.op = "recvInviteResponse" /\ lastOp'.arg.status = 200
      /\ lastInvite.cseq # 0) =>
       \A i \in Acks(sent') :
          /\ sent'[i].cseq = lastInvite.cseq
          /\ sent'[i].via # lastInvite.branch]_vars

\* C10: the ACK sent when a final response other than 2xx to the UA's INVITE
\* is processed carries the Via branch and the CSeq number of that INVITE and
\* the To-tag of the response.
C10_AckForFailure ==
  [][(/\ lastOp'.op = "recvInviteResponse" /\ lastOp'.arg.status >= 300
      /\ lastInvite.cseq # 0) =>
       \A i \in Acks(sent') :
          /\ sent'[i].via = lastInvite.branch
          /\ sent'[i].cseq = lastInvite.cseq
          /\ sent'[i].toTag = lastOp'.arg.toTag]_vars

\* C11: consecutive packets of one engine carry seq + 1 (mod 2^16) and
\* timestamp + 160 (mod 2^32), the stored counters stay unsigned values and no
\* interval callback fails to build its header, whatever counters the
\* constructor drew.
C11_CountersAdvance ==
  /\ rtp.seq \in 0..(Wrap16 - 1)
  /\ rtp.ts.hi \in 0..(Wrap16 - 1) /\ rtp.ts.lo \in 0..(Wrap16 - 1)
  /\ ~tsNegative(rtp.ts)
  /\ lastOp.op = "rtp.tick" => <<"throw", "RangeError">> \notin Range(events)
  /\ (lastPkt.sent /\ pkts # <<>>) =>
       /\ pkts[1].seq = (lastPkt.seq + 1) % Wrap16
       /\ pkts[1].lo = (lastPkt.lo + SAMPLES_PER_PACKET) % Wrap16
       /\ pkts[1].hi =
            (lastPkt.hi + ((lastPkt.lo + SAMPLES_PER_PACKET) \div Wrap16)) % Wrap16

\* C12: while a call is active and its RTP engine is streaming, the engine has
\* exactly one running send timer, whatever responses were received.
C12_OneSendTimer ==
  (call.state = "active" /\ call.rtpEngine # 0
   /\ engines[call.rtpEngine].active) =>
     engines[call.rtpEngine].timers = 1

\* C13: on every tick of a muted, streaming engine one packet is sent, its
\* payload is 160 silence bytes (0xFF for payload type 0, 0xD5 for 8), the
\* sequence number and the timestamp advance; and no packet ever carries a
\* block that was fed while muted or was queued when mute was set.
C13_MutedSendsSilence ==
  [][/\ (lastOp'.op = "rtp.tick" /\ rtp.active /\ rtp.muted /\ rtp.socket
         /\ rtp.remote # 0) =>
          /\ Len(pkts') = 1
          /\ pkts'[1].payload.kind = "silence"
          /\ pkts'[1].payload.len = 160
          /\ pkts'[1].payload.fill = (IF rtp.pt = 8 THEN 213 ELSE 255)
          /\ pkts'[1].seq = rtp.seq
          /\ rtp'.seq = (rtp.seq + 1) % Wrap16
          /\ rtp'.ts = tsAdvance(rtp.ts)
     /\ \A i \in DOMAIN pkts' : pkts'[i].payload.block \notin discarded']_vars

\* C14: when the first valid datagram since start() comes from another
\* endpoint than the one the SDP named, the engine logs the learned endpoint
\* and makes it the target, and every packet sent from then on goes to it.
C14_RetargetToSource ==
  [][/\ (lastOp'.op = "rtp.message" /\ heard = 0 /\ heard' # 0
         /\ rtp.active /\ rtp.remote \notin {0, heard'}) =>
          /\ <<"log", "remote-learned">> \in Range(events')
          /\ rtp'.remote = heard'
     /\ (heard' # 0 /\ pkts' # <<>>) => pkts'[1].to = heard']_vars

\* C15: close() leaves no running send timer and no socket, whatever start()
\* calls came before; stop() or close() on a closed engine changes nothing; and
\* an engine without socket sends no packet.
C15_CloseStopsAll ==
  [][/\ lastOp'.op = "rtp.close" =>
          rtp'.timers = 0 /\ ~rtp'.socket /\ ~rtp'.active
     /\ (lastOp'.op \in {"rtp.stop", "rtp.close"} /\ ~rtp.socket
         /\ ~rtp.active /\ ~rtp.sendInterval) => rtp' = rtp
     /\ ~rtp.socket => pkts' = <<>>]_vars

\* C16: stop() with a call ends it with reason Stopped: the callState event of
\* the step is idle with reason Stopped, the call's RTP engine is closed, and
\* afterwards there is no call, no open transport and no refresh or retry
\* timer.
C16_StopEndsCallStopped ==
  [][(lastOp'.op = "stop" /\ call.state # "none") =>
       /\ CallStateEvents(events') # {}
       /\ \A i \in CallStateEvents(events') :
            events'[i] = <<"callState", "idle", "Stopped">>
       /\ call.rtpEngine # 0 => ~engines'[call.rtpEngine].socket
       /\ call'.state = "none"
       /\ ~udpSocket' /\ ~tcpSocket'
       /\ ~registerTimer' /\ ~registerRetryTimer']_vars

\* C17: once stop() has returned, work that was pending when it was called
\* (the 2 s timer of unregister(), a stream callback, a second stop(), a
\* register() suspended inside start()) delivers no event and sends no message.
C17_SilentAfterStop ==
  [][(lastOp.op = "stop"
      /\ lastOp'.op \in {"stopTimer", "tcpClose", "tcpError", "stop", "start",
                         "registerResume"}) =>
       sent' = <<>> /\ events' = <<>>]_vars

\* C18: an invite() that resumes after binding its RTP socket writes its call
\* record and sends its INVITE only if no call exists: an existing call record
\* is never overwritten and no second INVITE transaction is started.
C18_OneCallOnly ==
  [][(lastOp'.op = "inviteResume" /\ call.state # "none") =>
       /\ call' = call
       /\ sent' = <<>>]_vars

\* C19: register() never rejects and never stays pending with nothing left to
\* settle it, also when the stream connection is refused, fails or times out.
C19_RegisterCompletes == regPromise \notin {"rejected", "abandoned"}

\* C20: when the stream closes the UA is unregistered, emits status
\* disconnected, and ends the call there is: its RTP engine is closed, the
\* call record is gone and callState idle is emitted.
C20_StreamLossEndsCall ==
  [][lastOp'.op = "tcpClose" =>
       /\ ~registered'
       /\ \E i \in DOMAIN events' :
            events'[i][1] = "status" /\ events'[i][2] = "disconnected"
       /\ call.state # "none" =>
            /\ call'.state = "none"
            /\ call.rtpEngine # 0 => ~engines'[call.rtpEngine].socket
            /\ \E i \in CallStateEvents(events') : events'[i][2] = "idle"]_vars

\* C21: a 401/407 that answers a REGISTER which already carried an
\* Authorization header is an authentication error: an error is logged, status
\* disconnected is emitted and no REGISTER with credentials is sent in reply.
C21_SecondChallengeIsError ==
  [][(lastOp'.op = "recvRegisterResponse" /\ lastOp'.arg \in {401, 407}
      /\ \E i \in Registers(sent) : sent[i].auth) =>
       /\ \A i \in Registers(sent') : ~sent'[i].auth
       /\ <<"log", "error">> \in Range(events')
       /\ \E i \in DOMAIN events' :
            events'[i][1] = "status" /\ events'[i][2] = "disconnected"]_vars

\* C22: every 200 to REGISTER leaves the UA registered with status connected
\* emitted and the refresh timer scheduled, and every firing of the refresh
\* timer sends exactly one REGISTER, without Authorization.
C22_RefreshAfter200 ==
  [][/\ (lastOp'.op = "recvRegisterResponse" /\ lastOp'.arg = 200) =>
          /\ registered' /\ registerTimer'
          /\ <<"status", "connected", "Registered">> \in Range(events')
     /\ lastOp'.op = "refresh" =>
          /\ Cardinality(Registers(sent')) = 1
          /\ \A i \in DOMAIN sent' :
               sent'[i].method = "REGISTER" /\ ~sent'[i].auth]_vars

\* C23 as stated: unregister() with the transport up sends one REGISTER with
\* Expires 0, cancels the refresh timer and schedules stop(); with the
\* transport not up it sends nothing and schedules nothing; when the 2 s timer
\* fires the transport is torn down.
C23_UnregisterAsStated ==
  [][/\ (lastOp'.op = "unregister" /\ TransportUp) =>
          /\ Len(sent') = 1 /\ sent'[1].method = "REGISTER"
          /\ sent'[1].expires = 0
          /\ ~registerTimer' /\ stopTimers' = stopTimers + 1
     /\ (lastOp'.op = "unregister" /\ ~TransportUp) =>
          sent' = <<>> /\ stopTimers' = stopTimers
     /\ lastOp'.op = "stopTimer" =>
          ~udpSocket' /\ ~tcpSocket' /\ ~registered' /\ ~registerTimer']_vars

\* C23 amended: whenever a socket object exists, unregister() cancels the
\* refresh timer and schedules stop(); the REGISTER with Expires 0 goes out
\* only if the transport is up (a stream socket that is not connected sends
\* nothing); with no socket object nothing is sent, emitted or scheduled; when
\* the 2 s timer fires the transport is torn down.
C23_UnregisterBySocket ==
  [][/\ (lastOp'.op = "unregister" /\ (udpSocket \/ tcpSocket)) =>
          /\ ~registerTimer' /\ stopTimers' = stopTimers + 1
          /\ registerCSeq' = registerCSeq + 1
          /\ IF TransportUp
             THEN /\ Len(sent') = 1 /\ sent'[1].method = "REGISTER"
                  /\ sent'[1].expires = 0 /\ ~sent'[1].auth
                  /\ sent'[1].cseq = registerCSeq + 1
             ELSE sent' = <<>> /\ <<"log", "error">> \in Range(events')
     /\ (lastOp'.op = "unregister" /\ ~udpSocket /\ ~tcpSocket) =>
          /\ sent' = <<>> /\ events' = <<>>
          /\ stopTimers' = stopTimers /\ registerTimer' = registerTimer
          /\ registerCSeq' = registerCSeq
     /\ lastOp'.op = "stopTimer" =>
          ~udpSocket' /\ ~tcpSocket' /\ ~registered' /\ ~registerTimer']_vars

C23_Witness ==
  /\ lastOp.op = "unregister" /\ transport = "tcp"
  /\ tcpSocket /\ ~tcpConnected
  /\ stopTimers = 1 /\ sent = <<>> /\ ~registerTimer

\* C24: however the stream is split into chunks, every string passed to
\* _handleMessage is one whole message of the stream, the messages passed are
\* a prefix of the stream's messages in order, and once the last chunk is read
\* all messages have been passed and the buffer is empty.
C24_FramerDeliversMessages ==
  /\ Len(delivered) <= Len(stream)
  /\ \A i \in DOMAIN delivered : delivered[i] = stream[i]
  /\ nRead = Len(Flatten(stream)) =>
       delivered = stream /\ tcpBuffer = <<>>

\* C25: for every 16-bit sample, in both laws, encoding the decoded code gives
\* the code again.
C25_ReencodeFixedPoint == codec.stage = 3 => codec.byte = codec.first

\* C26: the sample 0 encodes to 0xFF in mu-law and to 0xD5 in A-law, the
\* silence bytes the RTP engine pads with for payload types 0 and 8.
C26_SilenceEncodesToSilenceByte ==
  (codec.stage = 1 /\ codec.pcm = 0) =>
     codec.byte = silence(IF codec.law = "alaw" THEN 8 ELSE 0).fill

\* The payload types the UA implements a codec for (PCMU and PCMA).
C27_Supported == {0, 8}

\* C27: when an offer that lists a supported payload type is answered, the
\* engine sends RTP with the first supported payload type of the offer, and the
\* 200 OK's SDP lists that payload type.
C27_FirstCommonPayloadType ==
  [][(/\ lastOp'.op = "answerResume" /\ call'.state = "active"
      /\ call.remoteSdp.media
      /\ \E i \in DOMAIN call.remoteSdp.pts :
            call.remoteSdp.pts[i] \in C27_Supported) =>
       LET pts == call.remoteSdp.pts
           first == CHOOSE i \in DOMAIN pts :
                      /\ pts[i] \in C27_Supported
                      /\ \A j \in 1..(i - 1) : pts[j] \notin C27_Supported
       IN /\ engines'[lastOp'.arg].active
          /\ engines'[lastOp'.arg].pt = pts[first]
          /\ \E i \in DOMAIN sent' :
               /\ sent'[i].status = 200 /\ sent'[i].sdp.media
               /\ pts[first] \in Range(sent'[i].sdp.pts)]_vars

C27_Witness ==
  /\ lastOp.op = "answerResume" /\ call.state = "active"
  /\ call.remoteSdp.pts = <<9, 8>>
  /\ engines[lastOp.arg].active /\ engines[lastOp.arg].pt = 9

\* C28: every resumption of a suspended answerIncoming() completes without
\* throwing; it sends a 200 for the INVITE only while the call is still
\* ringing-in (so not a second time and not after the call has ended); and
\* when the call is idle afterwards the engine it bound has no open socket.
C28_SuspendedAnswerIsSafe ==
  [][lastOp'.op = "answerResume" =>
       /\ <<"throw", "TypeError">> \notin Range(events')
       /\ call.state # "ringing-in" =>
            \A i \in DOMAIN sent' :
               ~(sent'[i].status = 200 /\ sent'[i].method = "INVITE")
       /\ call'.state = "none" => ~engines'[lastOp'.arg].socket]_vars

\* C29: a BYE or CANCEL whose Call-ID is not the current call's leaves the call
\* record and the engines unchanged and emits no callState event; a BYE with
\* the current call's Call-ID ends the call.
C29_OtherDialogRequestIgnored ==
  [][/\ (/\ lastOp'.op \in {"recvBye", "recvCancel"}
         /\ call.state # "none"
         /\ lastOp'.arg.callId # call.callId) =>
          /\ call' = call /\ engines' = engines
          /\ \A i \in DOMAIN events' : events'[i][1] # "callState"
     /\ (/\ lastOp'.op = "recvBye"
         /\ call.state # "none"
         /\ lastOp'.arg.callId = call.callId) =>
          call'.state = "none"]_vars

\* C30: a response to an INVITE (180, 200, 401 or 4xx) received while the
\* current call is an inbound one (ringing-in, or active after answering)
\* leaves the call's state, its engine reference and the engines unchanged,
\* sends no ACK and no INVITE, and throws nothing.
C30_Inbound == call.incomingVia # 0 /\ call.state \in {"ringing-in", "active"}

C30_InviteResponseOnInboundCallIgnored ==
  [][(/\ lastOp'.op = "recvInviteResponse"
      /\ lastOp'.arg.status # 100
      /\ C30_Inbound) =>
       /\ call'.state = call.state /\ call'.rtpEngine = call.rtpEngine
       /\ engines' = engines
       /\ \A i \in DOMAIN sent' : sent'[i].method \notin {"ACK", "INVITE"}
       /\ <<"throw", "TypeError">> \notin Range(events')]_vars

\* C31: while the stream is closed and no register() is under way, neither the
\* refresh timer nor the retry timer fires (so neither attempts a REGISTER).
C31_StreamClosed ==
  /\ transport = "tcp" /\ tcpSocket /\ ~tcpAlive
  /\ regDns = 0 /\ regConn = 0

C31_NoTimerAfterClose ==
  [][C31_StreamClosed => lastOp'.op \notin {"refresh", "retryTimeout"}]_vars

\* C32: with the remote endpoint unset or 0.0.0.0, the first valid datagram
\* (length >= 12, version 2) makes its source the remote endpoint; with any
\* other remote endpoint no datagram changes it; a datagram shorter than 12
\* bytes or of another version changes nothing of the engine.
C32_LearnOnlyWhenUnknown ==
  [][lastOp'.op = "rtp.message" =>
       /\ (heard = 0 /\ heard' # 0 /\ rtp.remote \in {0, ZeroEp}) =>
             rtp'.remote = heard'
       /\ rtp.remote \notin {0, ZeroEp} => rtp'.remote = rtp.remote
       /\ (heard = 0 /\ heard' = 0) => rtp' = rtp]_vars

\* C33: the response handled directly after unregister() has sent its
\* REGISTER (Expires: 0) leads only to REGISTERs with Expires: 0, also when it
\* is a 401/407 challenge, and to no status connected event.
C33_UnregisterStaysUnregistered ==
  [][(/\ lastOp.op = "unregister" /\ stopTimers > 0
      /\ lastOp'.op = "recvRegisterResponse") =>
       /\ \A i \in Registers(sent') : sent'[i].expires = 0
       /\ \A i \in DOMAIN events' :
            ~(events'[i][1] = "status" /\ events'[i][2] = "connected")]_vars

\* The state named by the last status event of es, or "none".
LastStatus(es) ==
  LET idx == { i \in DOMAIN es : es[i][1] = "status" }
  IN IF idx = {} THEN "none"
     ELSE es[CHOOSE i \in idx : \A j \in idx : j <= i][2]

\* C34: a step whose last status event is disconnected leaves registered
\* false, and registered becomes true only in a step that emits status
\* connected.
C34_RegisteredAgreesWithStatus ==
  [][/\ LastStatus(events') = "disconnected" => ~registered'
     /\ (registered' /\ ~registered) => LastStatus(events') = "connected"]_vars

\* C35: after register() has sent its REGISTER, a status connected or status
\* disconnected event is eventually emitted, whatever the registrar does
\* (behaviours that run into the CSeq bound of the model are left out).
C35_StatusReported == LastStatus(events) \in {"connected", "disconnected"}

C35_RegisterReachesStatus ==
  (lastOp.op = "registerResume") ~>
     (C35_StatusReported \/ registerCSeq >= MaxCSeq)

\* An INVITE of the UA is outstanding or was just cancelled by hangup().
C36_InviteSent ==
  \/ lastInvite.cseq # 0
  \/ lastOp.op = "hangup" /\ \E i \in DOMAIN sent : sent[i].method = "CANCEL"

\* C36: a final response to an INVITE the UA sent is answered with an ACK in
\* the step that handles it, also when hangup() has just sent CANCEL and set
\* the call idle.
C36_FinalResponseAcked ==
  [][(/\ lastOp'.op = "recvInviteResponse" /\ lastOp'.arg.status >= 200
      /\ C36_InviteSent /\ TransportUp) =>
       \E i \in DOMAIN sent' : sent'[i].method = "ACK"]_vars

\* C37: a CANCEL received while the call is active, or while it is an outbound
\* call in calling or ringing, is answered with 200 and leaves the call record
\* and the engines unchanged and emits no callState event.
C37_CancelOnlyEndsRingingIn ==
  [][(/\ lastOp'.op = "recvCancel"
      /\ call.state \in {"active", "calling", "ringing"}) =>
       /\ TransportUp =>
            \E i \in DOMAIN sent' :
               sent'[i].status = 200 /\ sent'[i].cseqMethod = "CANCEL"
       /\ call' = call /\ engines' = engines
       /\ \A i \in DOMAIN events' : events'[i][1] # "callState"]_vars

\* C38: the CANCEL sent by hangup() has the CSeq number and Via branch of the
\* INVITE sent last for the call, and the call's Call-ID and From tag.
C38_CancelMatchesInvite ==
  [][(lastOp'.op = "hangup" /\ call.state = "calling" /\ TransportUp) =>
       \E i \in DOMAIN sent' :
          /\ sent'[i].method = "CANCEL"
          /\ sent'[i].cseq = lastInvite.cseq
          /\ sent'[i].via = lastInvite.branch
          /\ sent'[i].callId = call.callId
          /\ sent'[i].fromTag = call.fromTag]_vars

\* C39: a BYE or INFO sent on an answered inbound call addresses the caller
\* (Request-URI and To are the caller's From), carries the local tag of the
\* UA's 180/200 in From and the call's Call-ID; on an outbound call it
\* addresses the target, with the UA's From tag and the remote tag in To.
C39_InDialogRequests(msgs) ==
  { i \in DOMAIN msgs : msgs[i].method \in {"BYE", "INFO"} }

C39_RequestsIdentifyDialog ==
  [][(/\ lastOp'.op \in {"hangup", "sendDtmf"} /\ call.state = "active"
      /\ call.incomingVia # 0 => call.rtpEngine # 0) =>
       \A i \in C39_InDialogRequests(sent') :
          /\ sent'[i].callId = call.callId
          /\ IF call.incomingVia # 0
             THEN /\ sent'[i].to = call.incomingFrom
                  /\ sent'[i].fromTag = call.localTag
             ELSE /\ sent'[i].to = call.targetUri
                  /\ sent'[i].fromTag = call.fromTag
                  /\ sent'[i].toTag = call.toTag]_vars

\* Engines whose bind has resolved into a call and that still hold a socket
\* or a timer.
C40_OpenEngines ==
  { e \in EngineIds \ (pendInvite \cup pendAnswer) :
       engines[e].socket \/ engines[e].timers > 0 }

\* C40: apart from engines whose bind is still awaited, the only engine with
\* an open socket or a running timer is the one of the current call, and
\* there is none when there is no call.
C40_OnlyTheCallsEngineOpen ==
  /\ Cardinality(C40_OpenEngines) <= 1
  /\ C40_OpenEngines \subseteq {call.rtpEngine} \ {0}
  /\ call.state = "none" => C40_OpenEngines = {}
====
